---- MODULE Spec2Model ----
(***************************************************************************)
(* Model of the consume/commit loop (ConsumerApplication) and of the       *)
(* per-key handler (PointsHandler) of the pose classification service.     *)
(*                                                                         *)
(* One cooperative task runs start(): it suspends at every `await`.  The   *)
(* variable pc names the await the task is suspended at; an action is the  *)
(* completion of that await (with a result, with an exception, or with a   *)
(* cancellation) followed by the synchronous code up to the next await.    *)
(***************************************************************************)
EXTENDS Integers, Sequences, FiniteSets, TLC

\* ---------------------------------------------------------------- bounds
MaxTotal == 3
MaxRuns == 2

\* ------------------------------------------------------ program constants
consumer_batch_size == 100
consumer_timeout_ms == 500

\* ------------------------------------------------------------ Python values
\* Optional values: None is the empty tuple, a present value x is <<x>>.
NoneV == <<>>
Some(x) == <<x>>

\* The topic-partitions the consumer is assigned.
Partitions == {0, 1}

\* A byte string is a sequence of bytes.  The byte strings of the model hold
\* ASCII bytes and the byte 255, which no UTF-8 text contains.
Utf8Ok(b) == \A i \in 1 .. Len(b) : b[i] < 128

\* KeyDecode, changed to take an absent or invalid key as the empty text.
KeyDecodeLenient(key) ==
    IF key = NoneV \/ ~Utf8Ok(key[1]) THEN [err |-> "", str |-> <<>>]
    ELSE [err |-> "", str |-> key[1]]

\* bytes.decode("utf-8") of a message key: "AttributeError" for None,
\* "UnicodeDecodeError" for invalid bytes, else the text (its code points).
KeyDecode(key) ==
    IF key = NoneV THEN [err |-> "AttributeError", str |-> <<>>]
    ELSE IF ~Utf8Ok(key[1]) THEN [err |-> "UnicodeDecodeError", str |-> <<>>]
    ELSE [err |-> "", str |-> key[1]]

\* A message value: None, or bytes described by what they hold:
\*   enc  "utf8" | "bad"             whether the bytes are valid UTF-8
\*   doc  "object" | "array" | "garbage"   what the text is as JSON
\*   obj  the fields of the JSON object (a function from field names)
EmptyObj == [f \in {} |-> ""]
Obj(u, e, l) == [f \in {"user_id", "ex_id", "label"} |->
                    IF f = "user_id" THEN u ELSE IF f = "ex_id" THEN e ELSE l]
ValObject(o) == Some([enc |-> "utf8", doc |-> "object", obj |-> o])
ValArray == Some([enc |-> "utf8", doc |-> "array", obj |-> EmptyObj])
ValGarbage == Some([enc |-> "utf8", doc |-> "garbage", obj |-> EmptyObj])
ValBadUtf8 == Some([enc |-> "bad", doc |-> "garbage", obj |-> EmptyObj])

\* ValueDecode, changed to take a value that does not decode as an empty
\* object.
ValueDecodeLenient(value) ==
    IF value = NoneV THEN [err |-> "", obj |-> EmptyObj]
    ELSE IF value[1].enc # "utf8" \/ value[1].doc # "object"
      THEN [err |-> "", obj |-> EmptyObj]
    ELSE [err |-> "", obj |-> value[1].obj]

\* orjson.loads(value.decode("utf-8")) followed by the three value.get(...)
\* of the history key: the error raised, or the decoded mapping.
ValueDecode(value) ==
    IF value = NoneV THEN [err |-> "AttributeError", obj |-> EmptyObj]
    ELSE IF value[1].enc # "utf8"
      THEN [err |-> "UnicodeDecodeError", obj |-> EmptyObj]
    ELSE IF value[1].doc = "garbage"
      THEN [err |-> "JSONDecodeError", obj |-> EmptyObj]
    ELSE IF value[1].doc # "object"
      THEN [err |-> "AttributeError", obj |-> EmptyObj]
    ELSE [err |-> "", obj |-> value[1].obj]

\* dict.get(f) formatted by an f-string: the text "None" for a missing field.
GetStr(obj, f) == IF f \in DOMAIN obj THEN obj[f] ELSE "None"

\* f'{user_id}|{ex_id}|{label}': the three texts joined by "|" (kept as a
\* triple; the field texts of the model hold no "|").
HistoryKeyStr(obj) ==
    <<GetStr(obj, "user_id"), GetStr(obj, "ex_id"), GetStr(obj, "label")>>

\* ------------------------------------------------------------ the model
\* models.Model.count_complete_ex: the computation, opaque to the loop.
\* It returns (result, new_label_history, new_rD_x, new_rD_y); here the
\* label history grows by the message's label and the accumulators count.
count_complete_ex(obj, labels_history, old_rD_x, old_rD_y) ==
    LET labels == IF labels_history = NoneV THEN <<>> ELSE labels_history[1]
        x == IF old_rD_x = NoneV THEN 0 ELSE old_rD_x[1]
        y == IF old_rD_y = NoneV THEN 0 ELSE old_rD_y[1]
    IN  [result |-> [score |-> 5 * (x + 2)],
         new_label_history |-> Append(labels, GetStr(obj, "label")),
         new_rD_x |-> x + 1,
         new_rD_y |-> y + 2]

\* GatherResult, changed to pass the two accumulators in each other's place.
GatherResultSwapped(history_record, obj) ==
    LET r == IF history_record = NoneV
             THEN count_complete_ex(obj, NoneV, NoneV, NoneV)
             ELSE count_complete_ex(obj, Some(history_record[1][1]),
                                    Some(history_record[1][3]),
                                    Some(history_record[1][2]))
    IN  [result |-> r.result,
         new_history_record |-> <<r.new_label_history, r.new_rD_x, r.new_rD_y>>]

\* GatherResult, changed to compute every message as a cold start.
GatherResultCold(history_record, obj) ==
    LET r == count_complete_ex(obj, NoneV, NoneV, NoneV)
    IN  [result |-> r.result,
         new_history_record |-> <<r.new_label_history, r.new_rD_x, r.new_rD_y>>]

\* PointsHandler._gather_result: None for a missing history record, else its
\* three elements; the new record is the list of the three new elements.
GatherResult(history_record, obj) ==
    LET label_history == IF history_record = NoneV THEN NoneV
                         ELSE Some(history_record[1][1])
        rD_x == IF history_record = NoneV THEN NoneV
                ELSE Some(history_record[1][2])
        rD_y == IF history_record = NoneV THEN NoneV
                ELSE Some(history_record[1][3])
        r == count_complete_ex(obj, label_history, rD_x, rD_y)
    IN  [result |-> r.result,
         new_history_record |-> <<r.new_label_history, r.new_rD_x, r.new_rD_y>>]

\* ReadHistory, changed to answer from an empty snapshot of the store.
ReadHistoryStale(store, key) == NoneV

\* InMemoryHistoryStorage.read_history: dict.get(key), None when absent.
ReadHistory(store, key) == IF key \in DOMAIN store THEN Some(store[key]) ELSE NoneV

\* AppendToHistory, changed to extend the record the key already has.
AppendToHistoryExtend(store, history_record, key) ==
    [k \in DOMAIN store \cup {key} |->
        IF k # key THEN store[k]
        ELSE IF key \in DOMAIN store THEN store[key] \o history_record
        ELSE history_record]

\* AppendToHistory, changed to write the label history before the rest.
AppendToHistoryFieldwise(store, history_record, key) ==
    [k \in DOMAIN store \cup {key} |->
        IF k = key THEN <<history_record[1]>> ELSE store[k]]

\* InMemoryHistoryStorage.append_to_history: store[key] = history_record.
AppendToHistory(store, history_record, key) ==
    [k \in DOMAIN store \cup {key} |->
        IF k = key THEN history_record ELSE store[k]]

\* ----------------------------------------------------------- the records
KeyK == Some(<<107>>)
RecOkA == [key |-> KeyK, value |-> ValObject(Obj("42", "7", "A"))]
RecOkB == [key |-> KeyK, value |-> ValObject(Obj("42", "7", "B"))]
RecGarbage == [key |-> KeyK, value |-> ValGarbage]
RecNoValue == [key |-> KeyK, value |-> NoneV]
RecNoKey == [key |-> NoneV, value |-> ValObject(Obj("42", "7", "A"))]
RecordPool == {RecOkA, RecOkB, RecGarbage, RecNoValue, RecNoKey}

SeqsUpTo(S, n) == UNION {[1 .. k -> S] : k \in 0 .. n}

RECURSIVE SumLen(_, _)
SumLen(f, D) == IF D = {} THEN 0
                ELSE LET d == CHOOSE x \in D : TRUE
                     IN  Len(f[d]) + SumLen(f, D \ {d})

\* The logs of the partitions: at most MaxTotal records in all.
Logs == {l \in [Partitions -> SeqsUpTo(RecordPool, MaxTotal)] :
            SumLen(l, Partitions) <= MaxTotal}

\* -------------------------------------------------------------- the state
VARIABLES
    log,              \* broker: partition -> the records, offset o at o + 1
    committed,        \* broker: partition -> committed cursor of the group
    position,         \* consumer: partition -> next offset getmany returns
    run,              \* number of the current call of start()
    pc,               \* the await the task is suspended at, or "done"
    records,          \* _consume: items of records.items() not yet visited
    rest,             \* _consume: messages of the batch after msg
    msg,              \* _consume: the message of the inner loop
    history_record,   \* __call__: what read_history returned
    history_records,  \* InMemoryHistoryStorage._history_records
    sink,             \* what ResultProducer.produce published, in order
    error,            \* the exception start() ends with, "" if none
    logged,           \* start() logged "Error processing message"
    stopCalls,        \* calls of consumer.stop() in this run
    hsteps,           \* steps the current handler invocation completed
    delivered,        \* partition -> offsets handed to the handler, this run
    startCursor,      \* partition -> committed cursor when the run started
    slept,            \* milliseconds slept since the last getmany returned
    fetched,          \* records the last getmany returned, -1 before it
    nWrites,          \* history writes done, all runs
    prevFailed,       \* the message the previous run's handler raised on
    commits,          \* the commits issued in this run: <<partition, cursor>>
    started,          \* consumer.start() returned in this run
    lastWrite,        \* the last history write: its message, key and record,
                      \* and the record the first of the consecutive writes
                      \* for that message wrote
    storeAtEntry      \* the history store when the handler was last called

vars == <<log, committed, position, run, pc, records, rest, msg,
          history_record, history_records, sink, error, logged, stopCalls,
          hsteps, delivered, startCursor, slept, fetched, nWrites, prevFailed,
          commits, started, lastWrite, storeAtEntry>>

NoMsg == [tp |-> -1, offset |-> -1]
Rec(m) == log[m.tp][m.offset + 1]

HandlerErrors == {"AttributeError", "UnicodeDecodeError", "JSONDecodeError",
                  "StoreReadError", "ComputeError", "SinkError",
                  "StoreWriteError"}

\* The awaits of _consume and of the handler it drives.
LoopAwaits == {"getmany", "sleep", "read_history", "run_in_executor",
               "produce", "append_to_history", "commit"}
HandlerAwaits == {"read_history", "run_in_executor", "produce",
                  "append_to_history"}

\* ------------------------------------------------- control flow of start()
\* What the synchronous code between two awaits leaves behind: the next
\* await, the loop variables, the exception if one escaped, and the messages
\* it handed to the handler on the way.
Ctl(p, recs, r, m, e, c) ==
    [pc |-> p, records |-> recs, rest |-> r, msg |-> m, error |-> e, calls |-> c]

\* Raise, changed to log the exception and carry on with the commit.
RaiseAndCarryOn(e, recs, r, m, c) == Ctl("commit", recs, r, m, e, c)

\* start(): an exception leaves _consume; `except Exception` logs and
\* re-raises, `finally` awaits consumer.stop().
Raise(e, recs, r, m, c) == Ctl("stop", recs, r, m, e, c)

\* HandlerEntry, changed to commit the message before handling it.
HandlerEntryCommitFirst(recs, r, m) == Ctl("commit", recs, r, m, "", <<m>>)

\* PointsHandler.__call__ up to its first await: decode the value and build
\* the history key, then await read_history.
HandlerEntry(recs, r, m) ==
    LET d == ValueDecode(log[m.tp][m.offset + 1].value)
    IN  IF d.err # "" THEN Raise(d.err, recs, r, m, <<m>>)
        ELSE Ctl("read_history", recs, r, m, "", <<m>>)

\* `for tp, messages in records.items()`: an empty batch sleeps and continues,
\* a batch with messages enters the inner loop; no item left: next getmany.
ForItems(recs) ==
    IF recs = <<>> THEN Ctl("getmany", <<>>, <<>>, NoMsg, "", <<>>)
    ELSE LET h == Head(recs)
         IN  IF h.n = 0 THEN Ctl("sleep", Tail(recs), <<>>, NoMsg, "", <<>>)
             ELSE HandlerEntry(Tail(recs),
                               [i \in 1 .. (h.n - 1) |-> h.first + i],
                               [tp |-> h.tp, offset |-> h.first])

\* ForMessages, changed to take the messages of a batch from its end.
ForMessagesReversed(recs, r, tp) ==
    IF r # <<>>
    THEN HandlerEntry(recs, SubSeq(r, 1, Len(r) - 1),
                      [tp |-> tp, offset |-> r[Len(r)]])
    ELSE ForItems(recs)

\* `for msg in messages`: the next message of the batch, else the next item.
ForMessages(recs, r, tp) ==
    IF r # <<>> THEN HandlerEntry(recs, Tail(r), [tp |-> tp, offset |-> Head(r)])
    ELSE ForItems(recs)

\* NextHandlerAwait, changed to persist the history before publishing.
NextHandlerAwaitWriteFirst(p) ==
    CASE p = "read_history" -> "run_in_executor"
      [] p = "run_in_executor" -> "append_to_history"
      [] p = "append_to_history" -> "produce"
      [] p = "produce" -> "commit"

\* PointsHandler.__call__: the await that follows each await of the handler;
\* after the last one the handler returns and _consume awaits the commit.
NextHandlerAwait(p) ==
    CASE p = "read_history" -> "run_in_executor"
      [] p = "run_in_executor" -> "produce"
      [] p = "produce" -> "append_to_history"
      [] p = "append_to_history" -> "commit"

\* CommitCursor, changed to commit the offset of the message itself.
CommitCursorSame(m) == m.offset

\* CommitCursor, changed to commit one offset too far.
CommitCursorTooFar(m) == m.offset + 2

\* The cursor _consume commits for a message: msg.offset + 1.
CommitCursor(m) == m.offset + 1

\* asyncio.sleep(consumer_timeout_ms / 1000), in milliseconds.
SleepMs == consumer_timeout_ms

\* The effect of the synchronous code on the state of the task.
Apply(c, step) ==
    /\ pc' = c.pc
    /\ records' = c.records
    /\ rest' = c.rest
    /\ msg' = c.msg
    /\ error' = c.error
    /\ logged' = (c.error # "")
    /\ stopCalls' = IF c.pc = "stop" THEN stopCalls + 1 ELSE stopCalls
    /\ delivered' = IF c.calls = <<>> THEN delivered
                    ELSE [delivered EXCEPT ![c.msg.tp] = Append(@, c.msg.offset)]
    /\ hsteps' = IF c.calls # <<>> THEN <<>>
                 ELSE IF step # "" THEN Append(hsteps, step)
                 ELSE hsteps
    /\ storeAtEntry' = IF c.calls # <<>> THEN history_records ELSE storeAtEntry

\* What consumer.getmany may return: an ordered mapping of some partitions
\* to the next records of each (possibly none), max_records in all.
RECURSIVE SumN(_)
SumN(s) == IF s = <<>> THEN 0 ELSE Head(s).n + SumN(Tail(s))

FetchItems ==
    UNION {{[tp |-> p, first |-> position[p], n |-> k] :
               k \in 0 .. (Len(log[p]) - position[p])} : p \in Partitions}

\* The number of records a fetch result holds for a partition.
FetchedOf(s, p) ==
    IF \E i \in 1 .. Len(s) : s[i].tp = p
    THEN (CHOOSE i \in 1 .. Len(s) : s[i].tp = p)
    ELSE 0
NOf(s, p) == IF FetchedOf(s, p) = 0 THEN 0 ELSE s[FetchedOf(s, p)].n
FetchResults ==
    {s \in SeqsUpTo(FetchItems, Cardinality(Partitions)) :
        /\ \A i, j \in 1 .. Len(s) : i # j => s[i].tp # s[j].tp
        /\ SumN(s) <= consumer_batch_size}

\* ------------------------------------------------------------- the actions
\* ConsumerStart, changed to resume at the beginning of every partition.
ConsumerStartFromBeginning ==
    /\ pc = "starting"
    /\ pc' = "getmany"
    /\ position' = [p \in Partitions |-> 0]
    /\ started' = TRUE
    /\ UNCHANGED <<log, committed, run, records, rest, msg, history_record,
                   history_records, sink, error, logged, stopCalls, hsteps,
                   delivered, startCursor, slept, fetched, nWrites, prevFailed,
                   commits, lastWrite, storeAtEntry>>

\* await consumer.start() returns: the consumer resumes at the committed cursor.
ConsumerStart ==
    /\ pc = "starting"
    /\ pc' = "getmany"
    /\ position' = committed
    /\ started' = TRUE
    /\ UNCHANGED <<log, committed, run, records, rest, msg, history_record,
                   history_records, sink, error, logged, stopCalls, hsteps,
                   delivered, startCursor, slept, fetched, nWrites, prevFailed,
                   commits, lastWrite, storeAtEntry>>

\* await consumer.start() raises: start() ends before its try statement.
ConsumerStartFails ==
    /\ pc = "starting"
    /\ pc' = "done"
    /\ error' = "StartError"
    /\ UNCHANGED <<log, committed, position, run, records, rest, msg,
                   history_record, history_records, sink, logged, stopCalls,
                   hsteps, delivered, startCursor, slept, fetched, nWrites,
                   prevFailed,
                   commits, started, lastWrite, storeAtEntry>>

\* await consumer.getmany(...) returns a mapping; the for loops run up to
\* the next await.
Getmany ==
    /\ pc = "getmany"
    /\ \E s \in FetchResults :
        /\ position' = [p \in Partitions |-> position[p] + NOf(s, p)]
        /\ fetched' = SumN(s)
        /\ slept' = 0
        /\ Apply(ForItems(s), "")
    /\ UNCHANGED <<log, committed, run, history_record, history_records, sink,
                   startCursor, nWrites, prevFailed,
                   commits, started, lastWrite>>

\* await asyncio.sleep(...) returns; `continue` visits the next item.
Sleep ==
    /\ pc = "sleep"
    /\ slept' = slept + SleepMs
    /\ Apply(ForItems(records), "")
    /\ UNCHANGED <<log, committed, position, run, history_record,
                   history_records, sink, startCursor, fetched, nWrites,
                   prevFailed,
                   commits, started, lastWrite>>

\* await read_history(history_key_str) returns; key.decode("utf-8") follows.
HandlerReadHistory ==
    /\ pc = "read_history"
    /\ LET obj == ValueDecode(Rec(msg).value).obj
           k == KeyDecode(Rec(msg).key)
       IN  /\ history_record' = ReadHistory(history_records, HistoryKeyStr(obj))
           /\ IF k.err # "" THEN Apply(Raise(k.err, records, rest, msg, <<>>), "read")
              ELSE Apply(Ctl(NextHandlerAwait(pc), records, rest, msg, "", <<>>), "read")
    /\ UNCHANGED <<log, committed, position, run, history_records, sink,
                   startCursor, slept, fetched, nWrites, prevFailed,
                   commits, started, lastWrite>>

\* HandlerCompute, changed to submit the computation and go on with the
\* loop while it runs.
HandlerComputeDetached ==
    /\ pc = "run_in_executor"
    /\ Apply(ForMessages(records, rest, msg.tp), "compute")
    /\ UNCHANGED <<log, committed, position, run, history_record,
                   history_records, sink, startCursor, slept, fetched, nWrites,
                   prevFailed, commits, started, lastWrite>>

\* await run_in_executor(_gather_result, ...) returns the result and the new
\* history record (both functions of history_record and the value).
HandlerCompute ==
    /\ pc = "run_in_executor"
    /\ Apply(Ctl(NextHandlerAwait(pc), records, rest, msg, "", <<>>), "compute")
    /\ UNCHANGED <<log, committed, position, run, history_record,
                   history_records, sink, startCursor, slept, fetched, nWrites,
                   prevFailed,
                   commits, started, lastWrite>>

\* await produce(result, key_str) returns.
HandlerProduce ==
    /\ pc = "produce"
    /\ LET obj == ValueDecode(Rec(msg).value).obj
           g == GatherResult(history_record, obj)
       IN  sink' = Append(sink, <<KeyDecode(Rec(msg).key).str, g.result>>)
    /\ Apply(Ctl(NextHandlerAwait(pc), records, rest, msg, "", <<>>), "publish")
    /\ UNCHANGED <<log, committed, position, run, history_record,
                   history_records, startCursor, slept, fetched, nWrites,
                   prevFailed,
                   commits, started, lastWrite>>

\* await append_to_history(new_history_record, history_key_str) returns, and
\* with it the handler; _consume awaits the commit.
HandlerAppendToHistory ==
    /\ pc = "append_to_history"
    /\ LET obj == ValueDecode(Rec(msg).value).obj
           g == GatherResult(history_record, obj)
       IN  history_records' = AppendToHistory(history_records,
                                  g.new_history_record, HistoryKeyStr(obj))
    /\ nWrites' = nWrites + 1
    /\ lastWrite' = LET obj == ValueDecode(Rec(msg).value).obj
                        new == GatherResult(history_record, obj).new_history_record
                    IN  [msg |-> msg, key |-> HistoryKeyStr(obj), rec |-> new,
                         first |-> IF lastWrite.msg = msg THEN lastWrite.first
                                   ELSE new]
    /\ Apply(Ctl(NextHandlerAwait(pc), records, rest, msg, "", <<>>), "write")
    /\ UNCHANGED <<log, committed, position, run, history_record, sink,
                   startCursor, slept, fetched, prevFailed,
                   commits, started>>

\* Commit, changed to commit the consumed position of every partition, as
\* consumer.commit() without an argument does.
CommitAllPositions ==
    /\ pc = "commit"
    /\ committed' = [p \in Partitions |->
                        IF p = msg.tp THEN CommitCursor(msg) ELSE position[p]]
    /\ commits' = Append(commits, <<msg.tp, CommitCursor(msg)>>)
    /\ Apply(ForMessages(records, rest, msg.tp), "")
    /\ UNCHANGED <<log, position, run, history_record, history_records, sink,
                   startCursor, slept, fetched, nWrites, prevFailed,
                   started, lastWrite>>

\* await consumer.commit({tp: msg.offset + 1}) returns; the inner loop
\* takes the next message.
Commit ==
    /\ pc = "commit"
    /\ committed' = [committed EXCEPT ![msg.tp] = CommitCursor(msg)]
    /\ commits' = Append(commits, <<msg.tp, CommitCursor(msg)>>)
    /\ Apply(ForMessages(records, rest, msg.tp), "")
    /\ UNCHANGED <<log, position, run, history_record, history_records, sink,
                   startCursor, slept, fetched, nWrites, prevFailed,
                   started, lastWrite>>

\* The exception an await of the loop raises when its collaborator fails.
ErrorOf(p) ==
    CASE p = "getmany" -> "FetchError"
      [] p = "read_history" -> "StoreReadError"
      [] p = "run_in_executor" -> "ComputeError"
      [] p = "produce" -> "SinkError"
      [] p = "append_to_history" -> "StoreWriteError"
      [] p = "commit" -> "CommitError"

\* An await of _consume or of the handler raises an Exception.
AwaitRaises ==
    /\ pc \in LoopAwaits \ {"sleep"}
    /\ Apply(Raise(ErrorOf(pc), records, rest, msg, <<>>), "")
    /\ UNCHANGED <<log, committed, position, run, history_record,
                   history_records, sink, startCursor, slept, fetched, nWrites,
                   prevFailed,
                   commits, started, lastWrite>>

\* Cancel, changed to leave start() without its `finally`.
CancelWithoutFinally ==
    /\ pc \in LoopAwaits
    /\ pc' = "done"
    /\ error' = "CancelledError"
    /\ UNCHANGED <<log, committed, position, run, records, rest, msg,
                   history_record, history_records, sink, logged, stopCalls,
                   hsteps, delivered, startCursor, slept, fetched, nWrites,
                   prevFailed, commits, started, lastWrite, storeAtEntry>>

\* The driving task is cancelled while suspended in _consume: CancelledError
\* is raised at the await; it is no Exception, so only `finally` runs.
Cancel ==
    /\ pc \in LoopAwaits
    /\ pc' = "stop"
    /\ error' = "CancelledError"
    /\ stopCalls' = stopCalls + 1
    /\ UNCHANGED <<log, committed, position, run, records, rest, msg,
                   history_record, history_records, sink, logged, hsteps,
                   delivered, startCursor, slept, fetched, nWrites, prevFailed,
                   commits, started, lastWrite, storeAtEntry>>

\* The task is cancelled while awaiting consumer.start() or consumer.stop().
CancelOutside ==
    /\ pc \in {"starting", "stop"}
    /\ pc' = "done"
    /\ error' = "CancelledError"
    /\ UNCHANGED <<log, committed, position, run, records, rest, msg,
                   history_record, history_records, sink, logged, stopCalls,
                   hsteps, delivered, startCursor, slept, fetched, nWrites,
                   prevFailed,
                   commits, started, lastWrite, storeAtEntry>>

\* await consumer.stop() returns; start() re-raises the exception.
ConsumerStop ==
    /\ pc = "stop"
    /\ pc' = "done"
    /\ UNCHANGED <<log, committed, position, run, records, rest, msg,
                   history_record, history_records, sink, error, logged,
                   stopCalls, hsteps, delivered, startCursor, slept, fetched,
                   nWrites, prevFailed,
                   commits, started, lastWrite, storeAtEntry>>

\* The supervisor calls start() again: a new consumer, a new task.
Restart ==
    /\ pc = "done"
    /\ run < MaxRuns
    /\ run' = run + 1
    /\ pc' = "starting"
    /\ records' = <<>>
    /\ rest' = <<>>
    /\ msg' = NoMsg
    /\ history_record' = NoneV
    /\ error' = ""
    /\ logged' = FALSE
    /\ stopCalls' = 0
    /\ hsteps' = <<>>
    /\ delivered' = [p \in Partitions |-> <<>>]
    /\ startCursor' = committed
    /\ slept' = 0
    /\ fetched' = -1
    /\ prevFailed' = IF error \in HandlerErrors THEN msg ELSE NoMsg
    /\ commits' = <<>>
    /\ started' = FALSE
    /\ position' = [p \in Partitions |-> 0]
    /\ UNCHANGED <<log, committed, history_records, sink, nWrites,
                   lastWrite, storeAtEntry>>

\* The state when start() is first called, for given logs.
InitWith(logs) ==
    /\ log \in logs
    /\ committed = [p \in Partitions |-> 0]
    /\ position = [p \in Partitions |-> 0]
    /\ run = 1
    /\ pc = "starting"
    /\ records = <<>>
    /\ rest = <<>>
    /\ msg = NoMsg
    /\ history_record = NoneV
    /\ history_records = [k \in {} |-> <<>>]
    /\ sink = <<>>
    /\ error = ""
    /\ logged = FALSE
    /\ stopCalls = 0
    /\ hsteps = <<>>
    /\ delivered = [p \in Partitions |-> <<>>]
    /\ startCursor = [p \in Partitions |-> 0]
    /\ slept = 0
    /\ fetched = -1
    /\ nWrites = 0
    /\ prevFailed = NoMsg
    /\ commits = <<>>
    /\ started = FALSE
    /\ lastWrite = [msg |-> NoMsg, key |-> <<>>, rec |-> <<>>, first |-> <<>>]
    /\ storeAtEntry = [k \in {} |-> <<>>]

Init == InitWith(Logs)

\* One call of start().
Next ==
    \/ ConsumerStart
    \/ ConsumerStartFails
    \/ Getmany
    \/ Sleep
    \/ HandlerReadHistory
    \/ HandlerCompute
    \/ HandlerProduce
    \/ HandlerAppendToHistory
    \/ Commit
    \/ AwaitRaises
    \/ Cancel
    \/ CancelOutside
    \/ ConsumerStop

Spec == Init /\ [][Next]_vars

\* start() under a supervisor that calls it again when it ended, with all
\* records on partition 0.
InitOne ==
    InitWith({l \in Logs :
                 /\ \A p \in Partitions \ {0} : l[p] = <<>>
                 /\ \A i \in 1 .. Len(l[0]) :
                       l[0][i] \in {RecOkA, RecOkB, RecGarbage}})

NextSupervised ==
    \/ Next
    \/ Restart

SpecSupervised == InitOne /\ [][NextSupervised]_vars

\* start() when nothing fails and nobody cancels: every record decodes, every
\* await returns.  The task is resumed whenever an await can return (weak
\* fairness of the loop), and a fetch that is repeated while records are
\* available returns some of them (strong fairness of such a fetch).
InitProgress ==
    InitWith({l \in Logs :
                 \A p \in Partitions : \A i \in 1 .. Len(l[p]) :
                     l[p][i] \in {RecOkA, RecOkB}})

NextProgress ==
    \/ ConsumerStart
    \/ Getmany
    \/ Sleep
    \/ HandlerReadHistory
    \/ HandlerCompute
    \/ HandlerProduce
    \/ HandlerAppendToHistory
    \/ Commit

GetmanyRecords == Getmany /\ fetched' > 0

SpecProgress ==
    /\ InitProgress
    /\ [][NextProgress]_vars
    /\ WF_vars(NextProgress)
    /\ SF_vars(GetmanyRecords)

\* ============================================================ the claims
AllSteps == <<"read", "compute", "publish", "write">>
LastOf(q) == q[Len(q)]
Contiguous(q, first) == \A i \in 1 .. Len(q) : q[i] = first + i - 1

\* C1: a commit is issued only for the message whose handler invocation has
\* just returned without error, after its read, compute, publish and history
\* write, and it sets that partition's cursor to the message's offset + 1.
C1_Step ==
    (commits' # commits \/ committed' # committed) =>
          /\ pc = "commit"
          /\ error = ""
          /\ hsteps = AllSteps
          /\ delivered[msg.tp] # <<>>
          /\ LastOf(delivered[msg.tp]) = msg.offset
          /\ commits' = Append(commits, <<msg.tp, msg.offset + 1>>)
          /\ committed' = [committed EXCEPT ![msg.tp] = msg.offset + 1]
C1_CommitOnlyAfterHandler == [][C1_Step]_vars

\* C1 witness: two messages were handled and committed.
C1_Witness == Len(commits) >= 2 /\ committed[0] = 2

\* C2: when the handler raised on a message, the partition's committed cursor
\* is that message's offset; the next run hands the handler the messages from
\* that offset on, in order and without a gap, and all of them to the end of
\* the log once everything is fetched and handled.
C2_AtLeastOnce ==
    /\ error \in HandlerErrors =>
          /\ committed[msg.tp] = msg.offset
          /\ Contiguous(delivered[msg.tp], startCursor[msg.tp])
    /\ (run > 1 /\ prevFailed # NoMsg) =>
          LET p == prevFailed.tp
          IN  /\ Contiguous(delivered[p], prevFailed.offset)
              /\ Len(delivered[p]) <= Len(log[p]) - prevFailed.offset
              /\ (pc = "getmany" /\ position[p] = Len(log[p]))
                    => Len(delivered[p]) = Len(log[p]) - prevFailed.offset

\* C2 witness: the first run handled message 1 and failed on message 2 of
\* three; the second run was handed messages 2 and 3.
C2_Witness ==
    /\ run = 2
    /\ prevFailed = [tp |-> 0, offset |-> 1]
    /\ Len(log[0]) = 3
    /\ delivered[0] = <<1, 2>>
    /\ pc = "getmany"

\* C3: once the handler has raised, nothing more is fetched, handled or
\* committed on any partition, the failure is logged, and start() ends with
\* that same error once consumer.stop() returns (a cancellation that arrives
\* during consumer.stop() is the only thing that replaces it).
C3_Step ==
    error \in HandlerErrors =>
          /\ logged /\ logged'
          /\ pc = "stop" /\ pc' = "done"
          /\ commits' = commits
          /\ committed' = committed
          /\ ~(<<msg.tp, msg.offset + 1>> \in {commits[i] : i \in 1 .. Len(commits)})
          /\ delivered' = delivered
          /\ position' = position
          /\ fetched' = fetched
          /\ sink' = sink
          /\ history_records' = history_records
          /\ (error' = error \/ error' = "CancelledError")
C4_StopExactlyOnce ==
    /\ stopCalls <= 1
    /\ (pc = "done" /\ started) => stopCalls = 1
    /\ (pc = "stop") => stopCalls = 1
    /\ (pc \in LoopAwaits) => (stopCalls = 0 /\ error = "")

\* C4 witness: the task was cancelled while the handler awaited the
\* publish, and start() ended after one call of consumer.stop().
C4_Witness ==
    /\ pc = "done"
    /\ error = "CancelledError"
    /\ ~logged
    /\ hsteps = <<"read", "compute">>
    /\ stopCalls = 1

\* C5: each partition's messages reach the handler in offset order without
\* a gap; at most one message is handed to the handler and not yet
\* committed, and it is the message of the loop; while a handler invocation
\* is in flight every earlier message of its partition is committed.
Uncommitted(p) == Len(delivered[p]) - (committed[p] - startCursor[p])
C5_OneAtATimeInOrder ==
    /\ \A p \in Partitions :
          /\ Contiguous(delivered[p], startCursor[p])
          /\ Uncommitted(p) \in {0, 1}
          /\ Uncommitted(p) = 1 =>
                (msg.tp = p /\ msg.offset = LastOf(delivered[p]))
    /\ \A p, q \in Partitions : (Uncommitted(p) = 1 /\ Uncommitted(q) = 1) => p = q
    /\ pc \in HandlerAwaits =>
          (committed[msg.tp] = msg.offset /\ Uncommitted(msg.tp) = 1)

\* C5 witness: the third message of a batch is with the handler after the
\* first two were handled and committed.
C5_Witness ==
    /\ pc \in HandlerAwaits
    /\ delivered[msg.tp] = <<0, 1, 2>>
    /\ Len(commits) = 2

\* The history key of a message whose value decodes.
KeyOf(m) == HistoryKeyStr(ValueDecode(Rec(m).value).obj)
AfterRead == {"run_in_executor", "produce", "append_to_history"}

\* C6: between a handler's read_history and its own append_to_history the
\* record of its key is not written by anyone else; and when the previous
\* history write was made for the preceding message of the same partition
\* under the same key, the record the handler read is the record written then.
C6_ReadsPredecessorWrite ==
    pc \in AfterRead =>
       /\ history_record =
             IF KeyOf(msg) \in DOMAIN history_records
             THEN <<history_records[KeyOf(msg)]>> ELSE <<>>
       /\ (/\ lastWrite.msg = [tp |-> msg.tp, offset |-> msg.offset - 1]
           /\ lastWrite.key = KeyOf(msg))
             => history_record = <<lastWrite.rec>>

\* C6 witness: message i + 1 has read the record message i wrote under the
\* same key.
C6_Witness ==
    /\ pc = "run_in_executor"
    /\ lastWrite.msg = [tp |-> msg.tp, offset |-> msg.offset - 1]
    /\ lastWrite.key = KeyOf(msg)
    /\ history_record = <<lastWrite.rec>>

IsPrefix(q, r) == Len(q) <= Len(r) /\ \A i \in 1 .. Len(q) : q[i] = r[i]

\* C7: an invocation completes its steps in the order read, compute, publish,
\* write, the step it awaits being the next of that order, and the number of
\* history writes never exceeds the number of publishes.
C7_PublishBeforePersist ==
    /\ IsPrefix(hsteps, AllSteps)
    /\ nWrites <= Len(sink)
    /\ pc = "append_to_history" => hsteps = <<"read", "compute", "publish">>
    /\ pc = "produce" => hsteps = <<"read", "compute">>

\* C7 witness: a result was published and its history write failed, after an
\* earlier message was published and persisted.
C7_Witness ==
    /\ pc = "done"
    /\ error = "StoreWriteError"
    /\ nWrites = 1
    /\ Len(sink) = 2

\* C8: when a handler invocation has raised, the history store is what it
\* was when the handler was called; and every record of the store is a whole
\* record of three elements.
C8_NoPartialPersistence ==
    /\ error \in HandlerErrors => history_records = storeAtEntry
    /\ \A k \in DOMAIN history_records : Len(history_records[k]) = 3

\* C8 witness: the handler raised at its history write, with a record of an
\* earlier message in the store.
C8_Witness ==
    /\ error = "StoreWriteError"
    /\ hsteps = <<"read", "compute", "publish">>
    /\ DOMAIN history_records # {}
    /\ history_records = storeAtEntry

\* The records whose value does not decode or whose key or value is absent.
Undecodable == {RecGarbage, RecNoValue, RecNoKey}

\* C9: the cursor of a partition never passes a record whose value does not
\* decode or whose key or value is absent; once such a record is handed to
\* the handler it stays the message of the loop, none of its compute, publish
\* or history write happens, the store and the sink stay as they were, and
\* the loop is on its way out with the cursor at that record's offset.
C9_UndecodableHalts ==
    \A p \in Partitions : \A o \in 0 .. (Len(log[p]) - 1) :
        log[p][o + 1] \in Undecodable =>
           /\ committed[p] <= o
           /\ (delivered[p] # <<>> /\ LastOf(delivered[p]) = o) =>
                 /\ msg = [tp |-> p, offset |-> o]
                 /\ committed[p] = o
                 /\ IsPrefix(hsteps, <<"read">>)
                 /\ history_records = storeAtEntry
                 /\ pc \in {"read_history", "stop", "done"}
                 /\ pc = "read_history" => log[p][o + 1] = RecNoKey
                 /\ pc # "read_history" =>
                       error \in {"AttributeError", "JSONDecodeError",
                                  "StoreReadError", "CancelledError"}

\* C9 witness: after one message was committed, the handler raised on a
\* value that is not JSON and start() ended with the cursor at that record.
C9_Witness ==
    /\ pc = "done"
    /\ error = "JSONDecodeError"
    /\ msg.offset = 1
    /\ committed[msg.tp] = 1
    /\ Rec(msg) = RecGarbage

\* A fetch that returned no record.
C10_EmptyFetch == fetched = 0

\* C10: when the loop issues the fetch that follows a fetch that returned no
\* record, it has slept for exactly consumer_timeout_ms since that fetch
\* returned, has called the handler for nothing and has skipped nothing.
C10_IdleBackoffExact ==
    (pc = "getmany" /\ C10_EmptyFetch) => slept = consumer_timeout_ms

\* C11: when start() has left the loop by a cancellation, the handler
\* invocation that was in flight, if any, has completed all its steps: a
\* message handed to the handler and not committed has been read, computed,
\* published and persisted before consumer.stop() is called.
C11_CancelLetsHandlerFinish ==
    (pc \in {"stop", "done"} /\ error = "CancelledError" /\ ~logged) =>
        \A p \in Partitions : Uncommitted(p) = 1 => hsteps = AllSteps

\* C12: when a message whose history write was persisted is handed to the
\* handler again before any other message, the record the store holds for
\* its key after the second write is the record the first write left.
C12_RedeliveryIdempotent ==
    lastWrite.msg # NoMsg =>
        /\ lastWrite.rec = lastWrite.first
        /\ history_records[lastWrite.key] = lastWrite.first

\* Some step of the loop fetches, hands to the handler or commits a record
\* of a partition other than the one of the message being handled.
C13_OtherPartitionStep ==
    /\ Next
    /\ \E p \in Partitions \ {msg.tp} :
          \/ position'[p] # position[p]
          \/ delivered'[p] # delivered[p]
          \/ committed'[p] # committed[p]

\* C13 as stated: while a handler invocation is pending at its offloaded
\* computation and another partition has a record to fetch or to handle, the
\* loop can fetch, handle or commit for that other partition.
C13_OtherPartitionsProceed ==
    (/\ pc = "run_in_executor"
     /\ \E p \in Partitions \ {msg.tp} : committed[p] < Len(log[p]))
        => ENABLED C13_OtherPartitionStep

\* C13 amended: while a handler invocation is pending at its offloaded
\* computation, the loop fetches nothing, hands nothing to the handler and
\* commits nothing, for any partition; the only steps are the return or the
\* failure of that computation and the cancellation of the task.
C13_Step ==
    pc = "run_in_executor" =>
        /\ position' = position
        /\ delivered' = delivered
        /\ committed' = committed
        /\ commits' = commits
        /\ pc' \in {"produce", "stop"}
C13_PendingComputeStallsLoop == [][C13_Step]_vars

\* C13 witness: a computation is pending for a record of one partition while
\* a fetched record of the other partition waits in the same fetch result.
C13_Witness ==
    /\ pc = "run_in_executor"
    /\ records # <<>>
    /\ records[1].tp # msg.tp
    /\ records[1].n > 0

\* The cursors committed for a partition in this run, in the order issued.
RECURSIVE CommitsOf(_, _)
CommitsOf(q, p) ==
    IF q = <<>> THEN <<>>
    ELSE IF Head(q)[1] = p THEN <<Head(q)[2]>> \o CommitsOf(Tail(q), p)
    ELSE CommitsOf(Tail(q), p)

\* C14: the commits of a run for a partition are the cursors that follow the
\* cursor the run started with, each issued once and in increasing order,
\* and the committed cursor is the last of them; no message below the cursor
\* the run started with (one committed by an earlier run) is handed to the
\* handler or committed again.
C14_CommittedAtMostOnce ==
    \A p \in Partitions :
        LET c == CommitsOf(commits, p)
        IN  /\ Contiguous(c, startCursor[p] + 1)
            /\ committed[p] = startCursor[p] + Len(c)
            /\ \A i \in 1 .. Len(delivered[p]) : delivered[p][i] >= startCursor[p]
            /\ \A i, j \in 1 .. Len(delivered[p]) :
                  i < j => delivered[p][i] < delivered[p][j]

\* C14 witness: a second run commits the message that follows the one the
\* first run committed.
C14_Witness ==
    /\ run = 2
    /\ startCursor[0] = 1
    /\ commits = <<<<0, 2>>>>

\* The scenario: one partition whose first two messages have key "42|7|A",
\* both handled and committed, no later message persisted yet.
C15_Scenario ==
    /\ log[1] = <<>>
    /\ Len(log[0]) >= 2
    /\ log[0][1] = RecOkA
    /\ log[0][2] = RecOkA
    /\ Len(commits) >= 2
    /\ nWrites = 2

\* C15: in the scenario the committed cursor is message 2's offset + 1, the
\* sink received first the result computed from no history and then the
\* result computed from the record message 1 persisted, nothing else unless a
\* third message is being handled, and the store holds message 2's record.
C15_TwoMessagesOneKey ==
    C15_Scenario =>
        /\ commits = <<<<0, 1>>, <<0, 2>>>>
        /\ committed[0] = 2
        /\ Len(sink) >= 2
        /\ sink[1] = <<<<107>>, [score |-> 10]>>
        /\ sink[2] = <<<<107>>, [score |-> 15]>>
        /\ Len(sink) > 2 => (msg.offset = 2 /\ Len(sink) = 3)
        /\ DOMAIN history_records = {<<"42", "7", "A">>}
        /\ history_records[<<"42", "7", "A">>] = <<<<"A", "A">>, 2, 4>>

\* C15 witness: both messages are handled and committed and the loop is back
\* at the fetch.
C15_Witness ==
    /\ C15_Scenario
    /\ pc = "getmany"
    /\ Len(sink) = 2
    /\ Len(log[0]) = 3

\* The keys and records the round trip is tried with, on every store the
\* handler produces.
C16_Keys == {<<"42", "7", "A">>, <<"42", "7", "B">>, <<"None", "None", "None">>}
C16_Records == {<<<<"A">>, 1, 2>>, <<<<"B", "B">>, 2, 4>>}

\* C16: reading a key after writing it returns the record written, whatever
\* the key held before; the write leaves every other key as it was; and a
\* key never written reads as absent.
C16_StoreRoundTrip ==
    /\ \A k \in C16_Keys : \A r \in C16_Records :
          LET after == AppendToHistory(history_records, r, k)
          IN  /\ ReadHistory(after, k) = <<r>>
              /\ DOMAIN after = DOMAIN history_records \cup {k}
              /\ \A k2 \in DOMAIN after \ {k} : after[k2] = history_records[k2]
              /\ \A k2 \in C16_Keys \ {k} :
                    ReadHistory(after, k2) = ReadHistory(history_records, k2)
    /\ \A k \in C16_Keys \ DOMAIN history_records :
          ReadHistory(history_records, k) = <<>>
    /\ lastWrite.msg # NoMsg =>
          ReadHistory(history_records, lastWrite.key) = <<lastWrite.rec>>

\* C16 witness: the store holds records under two keys, one of them written
\* over an earlier record of that key, and a third key was never written.
C16_Witness ==
    /\ DOMAIN history_records = {<<"42", "7", "A">>, <<"42", "7", "B">>}
    /\ nWrites = 3
    /\ pc = "commit"

\* What the computation returns for the message of the loop when it is given
\* None three times if the store held nothing for the key when the handler
\* was called, and the three elements of the stored record otherwise.
C17_Computed ==
    LET obj == ValueDecode(Rec(msg).value).obj
        k == KeyOf(msg)
    IN  IF k \in DOMAIN storeAtEntry
        THEN count_complete_ex(obj, <<storeAtEntry[k][1]>>,
                               <<storeAtEntry[k][2]>>, <<storeAtEntry[k][3]>>)
        ELSE count_complete_ex(obj, <<>>, <<>>, <<>>)

\* C17: the handler reads None exactly when the store has no record for the
\* key; what it publishes and what it persists are the result and the three
\* new elements the computation returns for those inputs, and the persisted
\* record has three elements.
C17_ColdStart ==
    /\ pc \in AfterRead =>
          (history_record = <<>>) = (KeyOf(msg) \notin DOMAIN storeAtEntry)
    /\ pc = "append_to_history" => sink[Len(sink)][2] = C17_Computed.result
    /\ pc = "commit" =>
          /\ Len(history_records[KeyOf(msg)]) = 3
          /\ history_records[KeyOf(msg)] =
                <<C17_Computed.new_label_history, C17_Computed.new_rD_x,
                  C17_Computed.new_rD_y>>

\* C17 witness: a message of a key the store has no record for was handled
\* and persisted, after a message of another key.
C17_Witness ==
    /\ pc = "commit"
    /\ DOMAIN storeAtEntry = {<<"42", "7", "A">>}
    /\ KeyOf(msg) = <<"42", "7", "B">>
    /\ history_records[KeyOf(msg)] = <<<<"B">>, 1, 2>>

\* The partitions of the fetch result the loop has not reached yet.
C18_NotReached == {records[i].tp : i \in 1 .. Len(records)}

\* C18: a step changes the cursor of no partition but the one of the message
\* just handled; and when the handler has raised on a record, every
\* partition the fetch result still holds has the cursor it had when the
\* fetch was made, and every other partition but the failing one has all
\* its fetched records committed.
C18_Step ==
    /\ \A p \in Partitions : committed'[p] # committed[p] => p = msg.tp
    /\ error \in HandlerErrors =>
          /\ \A i \in 1 .. Len(records) :
                committed[records[i].tp] = records[i].first
          /\ \A p \in Partitions \ (C18_NotReached \cup {msg.tp}) :
                committed[p] = position[p]
C18_CommitFrame == [][C18_Step]_vars

\* C18 witness: a fetch returned both partitions; the first one's record was
\* handled and committed, and the handler raised on the second one's record.
C18_Witness ==
    /\ error \in HandlerErrors
    /\ fetched = 2
    /\ commits = <<<<1 - msg.tp, 1>>>>
    /\ committed[msg.tp] = 0
    /\ pc = "stop"

\* C19: in every run, under any restarts, the cursor of a partition does not
\* pass a record whose value does not decode; a run that starts with the
\* cursor at such a record hands the handler that record and nothing else
\* of the partition, the handler raises its decode error, and the run ends.
C19_PoisonBlocksPartition ==
    \A p \in Partitions : \A o \in 0 .. (Len(log[p]) - 1) :
        log[p][o + 1] = RecGarbage =>
           /\ committed[p] <= o
           /\ \A i \in 1 .. Len(delivered[p]) : delivered[p][i] <= o
           /\ (startCursor[p] = o /\ delivered[p] # <<>>) =>
                 /\ delivered[p] = <<o>>
                 /\ committed[p] = o
                 /\ commits = <<>>
                 /\ pc \in {"stop", "done"}
                 /\ error \in {"JSONDecodeError", "CancelledError"}
                 /\ logged
           /\ (run > 1 /\ prevFailed = [tp |-> p, offset |-> o]) =>
                 startCursor[p] = o

\* C19 witness: the second run was handed the record the first run failed
\* on, after an earlier record had been committed, and failed on it again.
C19_Witness ==
    /\ run = 2
    /\ prevFailed = [tp |-> 0, offset |-> 1]
    /\ Rec(prevFailed) = RecGarbage
    /\ delivered[0] = <<1>>
    /\ error = "JSONDecodeError"
    /\ pc = "done"
    /\ committed[0] = 1

\* Every record of every partition was handed to the handler and committed.
C20_AllCommitted ==
    \A p \in Partitions :
        /\ committed[p] = Len(log[p])
        /\ Len(delivered[p]) = Len(log[p])

\* C20: when nothing fails and nobody cancels, every available record is
\* eventually handled and committed and stays so, and at no time has the
\* loop ended or consumer.stop() been called.
C20_Progress ==
    /\ <>[]C20_AllCommitted
    /\ [](pc \notin {"stop", "done"} /\ stopCalls = 0 /\ error = "")

\* C20 witness: three records on two partitions are all handled and
\* committed and the loop is fetching again.
C20_Witness ==
    /\ C20_AllCommitted
    /\ Len(log[0]) = 2
    /\ Len(log[1]) = 1
    /\ pc = "getmany"
    /\ fetched = 0

====
